---- MODULE Spec2Model ----
(***************************************************************************)
(* Model of extract_PANGAEA_metadata.py: a batch script that walks the     *)
(* *.raw files of a directory in sorted order, opens each through the      *)
(* echopype reader, reduces its navigation log, appends one metadata row   *)
(* per channel to a column table and writes the table as CSV at the end.   *)
(*                                                                         *)
(* Numbers are fixed point.  A quantity that the script rounds to d        *)
(* decimals is given to the model with one more digit (raw unit            *)
(* 10^-(d+1)) and np.round / round is RoundHalfEven(x, 10).                *)
(***************************************************************************)
EXTENDS Integers, Sequences, FiniteSets, TLC

(***************************************************************************)
(* Bounds of the model.                                                    *)
(***************************************************************************)
MaxFiles == 2      \* files in the directory
MaxFix == 2        \* navigation logs are exhaustive in sentence type up to this length
MaxChannels == 2   \* channels of a file

(***************************************************************************)
(* Script parameters (lines 46-49).                                        *)
(***************************************************************************)
cruise_label == "SURVEY_YEAR"
ref_ping == 0
calibration_status == "Unknown"

(***************************************************************************)
(* Values without a number: no value yet (None), numpy's nan.              *)
(***************************************************************************)
None == "None"
NaN == -1000000
Unbound == NaN - 1    \* a numeric variable the script has not assigned yet

Range(s) == {s[k] : k \in DOMAIN s}
MinOf(a, b) == IF a < b THEN a ELSE b
MaxOf(a, b) == IF a > b THEN a ELSE b

(***************************************************************************)
(* np.round(x, d) and round(x, d) on a value with one more digit than d:   *)
(* the nearest multiple of m, ties to the even multiple; the result counts *)
(* multiples of m.  nan stays nan.                                         *)
(***************************************************************************)
RoundHalfEven(x, m) ==
    IF x = NaN THEN NaN
    ELSE LET q == x \div m
             r == x % m
         IN  IF 2 * r < m THEN q
             ELSE IF 2 * r > m THEN q + 1
             ELSE IF q % 2 = 0 THEN q ELSE q + 1

(***************************************************************************)
(* nan-propagating float addition.                                         *)
(***************************************************************************)
FAdd(a, b) == IF a = NaN \/ b = NaN THEN NaN ELSE a + b

(***************************************************************************)
(* np.nanmax over a sequence of samples: nan samples are ignored, an       *)
(* all-nan input gives nan.                                                *)
(***************************************************************************)
nanmax(s) ==
    LET vals == {s[k] : k \in DOMAIN s} \ {NaN}
    IN  IF vals = {} THEN NaN
        ELSE CHOOSE v \in vals : \A w \in vals : w <= v

(***************************************************************************)
(* The k-th smallest entry of a sequence of numbers.                       *)
(***************************************************************************)
Kth(s, k) ==
    CHOOSE v \in Range(s) :
        /\ Cardinality({j \in DOMAIN s : s[j] < v}) < k
        /\ k <= Cardinality({j \in DOMAIN s : s[j] <= v})

(***************************************************************************)
(* Twice np.nanmedian of a sequence: nan entries are dropped, an odd count *)
(* gives the middle entry and an even count the mean of the two middle     *)
(* entries; nothing left gives nan.                                        *)
(***************************************************************************)
nanmedian2(s) ==
    LET t == SelectSeq(s, LAMBDA v : v # NaN)
        n == Len(t)
    IN  IF n = 0 THEN NaN
        ELSE IF n % 2 = 1 THEN 2 * Kth(t, (n + 1) \div 2)
        ELSE Kth(t, n \div 2) + Kth(t, n \div 2 + 1)

(***************************************************************************)
(* np.round(np.nanmedian(s), 5) for positions given in 10^-6 degrees: the  *)
(* result counts 10^-5 degrees.                                            *)
(***************************************************************************)
RoundMedian5(s) == RoundHalfEven(nanmedian2(s), 20)

(***************************************************************************)
(* File names are sequences of character codes; glob gives them in any     *)
(* order and np.sort orders them lexicographically.                        *)
(***************************************************************************)
Names == {<<1>>, <<1, 2>>, <<2>>}

LexLess(a, b) ==
    \E k \in 1..(MinOf(Len(a), Len(b)) + 1) :
        /\ \A j \in 1..(k - 1) : a[j] = b[j]
        /\ \/ k > Len(a) /\ k <= Len(b)
           \/ k <= Len(a) /\ k <= Len(b) /\ a[k] < b[k]

\* a variant that leaves the names in glob order
np_sort_unsorted(g) == g

np_sort(g) ==
    [k \in 1..Len(g) |->
        CHOOSE n \in Range(g) :
            Cardinality({m \in Range(g) : LexLess(m, n)}) = k - 1]

GlobOrders(S) ==
    {g \in [1..Cardinality(S) -> S] : \A a, b \in DOMAIN g : a # b => g[a] # g[b]}

(***************************************************************************)
(* What echopype reports.  Sentence types are NMEA talker sentences; the   *)
(* script recognises three of them.  np.unique returns the types present   *)
(* in sorted order, which for these texts is DBT < GGA < GLL < RMC.        *)
(***************************************************************************)
SentenceTypes == {"DBT", "GGA", "GLL", "RMC"}
Recognised == {"GGA", "GLL", "RMC"}
TypeRank == [st \in SentenceTypes |->
                CASE st = "DBT" -> 1 [] st = "GGA" -> 2 [] st = "GLL" -> 3 [] st = "RMC" -> 4]

Dialects == {"EK60", "EK80"}
Encodings == {"power", "complex"}
ChannelKinds == {18, 38, 120}
EnvVars == {"sound_speed", "sound_absorption", "water_level"}

(***************************************************************************)
(* The navigation log of a file: four parallel arrays, one entry per fix.  *)
(* Times are not monotone in input order and positions hold nan entries.   *)
(***************************************************************************)
TimeAt(k, p) == 100 + 40 * ((k + p) % 3) + k
LatAt(k, p) == IF (k + p) % 5 = 0 THEN NaN ELSE 5000 + 37 * ((k * k + p) % 11) + 3 * p
LonAt(k, p) == IF (k + p) % 3 = 0 THEN NaN ELSE 0 - (3000 + 53 * ((3 * k + p) % 7))

Platform(types, p) ==
    [sentence_type |-> types,
     time1         |-> [k \in 1..Len(types) |-> TimeAt(k, p)],
     latitude      |-> [k \in 1..Len(types) |-> LatAt(k, p)],
     longitude     |-> [k \in 1..Len(types) |-> LonAt(k, p)]]

Rep(n, pattern) == [k \in 1..n |-> pattern[((k - 1) % Len(pattern)) + 1]]

ShortLogs == UNION {[1..n -> SentenceTypes] : n \in 0..MaxFix}
LongLogs ==
    {Rep(4, <<"GGA">>), Rep(5, <<"RMC", "GGA", "DBT">>), Rep(6, <<"DBT", "RMC">>),
     Rep(3, <<"DBT", "DBT", "GGA">>), Rep(3, <<"GLL", "RMC", "GLL">>),
     Rep(20, <<"RMC">>), Rep(22, <<"GGA">>), Rep(30, <<"GGA">>), Rep(44, <<"RMC", "GLL">>)}
NavLogs == ShortLogs \cup LongLogs

(***************************************************************************)
(* One channel of Sonar/Beam_group1 and of the Sv dataset; every per-ping  *)
(* array holds two pings, the script reads ping ref_ping.                  *)
(***************************************************************************)
Pings(v) == <<v, v + 7>>

ChannelLists ==
    {c \in UNION {[1..n -> ChannelKinds] : n \in 0..MaxChannels} :
        \A a, b \in DOMAIN c : a # b => c[a] # c[b]}

(***************************************************************************)
(* The parameters that describe a raw file, and the file they describe.    *)
(*   openable   dialects under which ep.open_raw succeeds                  *)
(*   encodable  encode modes under which compute_Sv succeeds               *)
(*   scalarFail environment variables whose scalar read raises             *)
(*   chanFail   whether the per-channel read of the last channel raises    *)
(*   twoway     whether the beam group holds the two-way beamwidths        *)
(*   svbwFail   whether the Sv beamwidth of the last channel is missing    *)
(***************************************************************************)
BaseParams(p) ==
    [p |-> p, openable |-> {"EK60"}, encodable |-> {"power"},
     nav |-> Rep(3, <<"GGA">>),
     chans |-> IF p = 0 THEN <<18, 38>> ELSE <<120>>,
     scalarFail |-> {}, chanFail |-> FALSE, twoway |-> TRUE, svbwFail |-> FALSE,
     echo |-> <<250004, NaN, 250015 + 10 * p>>]

RawFile(r) ==
    LET n == Len(r.chans)
        p == r.p
    IN
    [openable  |-> r.openable,
     encodable |-> r.encodable,
     Sonar     |-> [sonar_software_name    |-> IF p = 0 THEN "ER60" ELSE "EK80",
                    sonar_software_version |-> IF p = 0 THEN "2.4.3" ELSE "1.12.2"],
     Beam      |-> [frequency_nominal |-> [c \in 1..n |-> r.chans[c] * 1000 + 500 * p],
                    channel           |-> [c \in 1..n |-> <<"GPT", r.chans[c], p>>],
                    transmit_duration_nominal |-> [c \in 1..n |-> Pings(10240 + 5 * p + r.chans[c] * 10)],
                    sample_interval   |-> [c \in 1..n |-> Pings(25600 + r.chans[c])],
                    transmit_power    |-> [c \in 1..n |-> Pings(2000 - r.chans[c])],
                    twoway            |-> r.twoway,
                    beamwidth_twoway_alongship   |-> [c \in 1..n |-> Pings(7004 + r.chans[c])],
                    beamwidth_twoway_athwartship |-> [c \in 1..n |-> Pings(7015 + r.chans[c])]],
     Platform  |-> Platform(r.nav, p),
     Sv        |-> [ping_time  |-> [k \in 1..(2 + p) |-> k],
                    echo_range |-> r.echo,
                    beamwidth_ok          |-> [c \in 1..n |-> ~(r.svbwFail /\ c = n)],
                    beamwidth_alongship   |-> [c \in 1..n |-> Pings(7100 + r.chans[c])],
                    beamwidth_athwartship |-> [c \in 1..n |-> Pings(7200 + r.chans[c])],
                    gain_correction       |-> [c \in 1..n |-> Pings(2450 + r.chans[c])],
                    sa_correction         |-> [c \in 1..n |-> Pings(r.chans[c] - 60)],
                    scalar_ok   |-> [v \in EnvVars |-> v \notin r.scalarFail],
                    scalar      |-> [sound_speed      |-> 1500005 + 10 * p,
                                     sound_absorption |-> 2995 + 10 * p,
                                     water_level      |-> <<6015 + 10 * p, 6100>>],
                    channel_ok  |-> [c \in 1..n |-> ~(r.chanFail /\ c = n)],
                    per_channel |-> [sound_speed      |-> [c \in 1..n |-> Pings(1490000 + r.chans[c])],
                                     sound_absorption |-> [c \in 1..n |-> Pings(3005 + 10 * r.chans[c])],
                                     water_level      |-> [c \in 1..n |-> Pings(5000 + r.chans[c])]]]]

(***************************************************************************)
(* The files a directory may hold.  One file of a directory varies over    *)
(* SubjectFiles, the others are one of the two plain acquisitions.         *)
(***************************************************************************)
SubjectParams ==
    LET B == BaseParams(0)
    IN  {[B EXCEPT !.nav = t] : t \in NavLogs}
        \cup {[B EXCEPT !.openable = o, !.encodable = e] :
                  o \in SUBSET Dialects, e \in SUBSET Encodings}
        \cup {[B EXCEPT !.chans = c] : c \in ChannelLists}
        \cup {[B EXCEPT !.scalarFail = s, !.chanFail = f] :
                  s \in SUBSET EnvVars, f \in BOOLEAN}
        \cup {[B EXCEPT !.twoway = t, !.svbwFail = f] : t \in BOOLEAN, f \in BOOLEAN}
        \cup {[B EXCEPT !.echo = e] : e \in {<<NaN, NaN>>, <<100000>>, <<7, 250014>>}}
        \cup {[B EXCEPT !.nav = Rep(20, <<"RMC">>), !.openable = o] : o \in SUBSET Dialects}

SubjectFiles == {RawFile(r) : r \in SubjectParams}
PlainFiles == {RawFile(BaseParams(0)), RawFile(BaseParams(1))}

Dirs ==
    UNION {
        UNION {
            {d \in [S -> SubjectFiles \cup PlainFiles] :
                \A n \in S \ {s} : d[n] \in PlainFiles} : s \in S}
        : S \in {T \in SUBSET Names : T # {} /\ Cardinality(T) <= MaxFiles}}
    \cup {<<>>}

(***************************************************************************)
(* The program state: the directory, the script's variables, the column    *)
(* table, the CSV file and the position in the script.                     *)
(***************************************************************************)
VARIABLES disk, file_names, file_idx, raw_type, ek, Sv_obj,
          software, npings, max_recording_range,
          gps, gps_start_dt, gps_end_dt, value_range,
          gps_start_lat, gps_end_lat, gps_start_lon, gps_end_lon,
          i, sound_speed, sound_absorption, transducer_depth,
          metadata, csv, exception, pc

vars == <<disk, file_names, file_idx, raw_type, ek, Sv_obj,
          software, npings, max_recording_range,
          gps, gps_start_dt, gps_end_dt, value_range,
          gps_start_lat, gps_end_lat, gps_start_lon, gps_end_lon,
          i, sound_speed, sound_absorption, transducer_depth,
          metadata, csv, exception, pc>>

fileVars == <<software, npings, max_recording_range>>
gpsVars == <<gps, gps_start_dt, gps_end_dt>>
posVars == <<value_range, gps_start_lat, gps_end_lat, gps_start_lon, gps_end_lon>>
envVars == <<sound_speed, sound_absorption, transducer_depth>>

Columns ==
    {"Event", "Echogram, raw format []", "Identification []//*channel",
     "Data acquisition software (recording raw data) []", "Frequency [kHz]",
     "Number of pings []", "Beamwidth, alongship [deg]", "Beamwidth, athwartship [deg]",
     "Gain, transducer [dB re 1]", "Simrad correction factor [dB re 1/m]",
     "Sample interval [s]", "Pulse duration, transmitted [ms]", "Power, transmitted [W]",
     "Sound velocity in water [m/s]", "Sound absorption [dB/m]",
     "Depth, water, top/minimum [m]", "Depth, water, bottom/maximum [m]",
     "DEPTH, water [m]", "Date/time start []", "Date/time end []\t",
     "Latitude []", "Latitude 2 []", "Longitude []\t", "Longitude 2 []",
     "Calibration []"}

Init ==
    /\ disk \in Dirs
    /\ file_names = <<>>
    /\ file_idx = 0
    /\ raw_type = None
    /\ ek = None
    /\ Sv_obj = None
    /\ software = None
    /\ npings = Unbound
    /\ max_recording_range = Unbound
    /\ gps = <<>>    \* not bound before line 90; no dictionary entries
    /\ gps_start_dt = Unbound
    /\ gps_end_dt = Unbound
    /\ value_range = None
    /\ gps_start_lat = Unbound
    /\ gps_end_lat = Unbound
    /\ gps_start_lon = Unbound
    /\ gps_end_lon = Unbound
    /\ i = 0
    /\ sound_speed = Unbound
    /\ sound_absorption = Unbound
    /\ transducer_depth = Unbound
    /\ metadata = <<>>
    /\ csv = None
    /\ exception = None
    /\ pc = "glob"

(***************************************************************************)
(* Line 55: the *.raw names of the directory, sorted.                      *)
(***************************************************************************)
ListFiles ==
    /\ pc = "glob"
    /\ \E g \in GlobOrders(DOMAIN disk) : file_names' = np_sort(g)
    /\ pc' = "for"
    /\ UNCHANGED <<exception, disk, file_idx, raw_type, ek, Sv_obj, fileVars, gpsVars, posVars,
                   i, envVars, metadata, csv>>

(***************************************************************************)
(* Line 61: the head of the file loop.  file_idx counts the files done, so *)
(* the file at hand is file_names[file_idx + 1] of the 1-based sequence.   *)
(***************************************************************************)
CurrentName == file_names[file_idx + 1]

ForFile ==
    /\ pc = "for"
    /\ pc' = IF file_idx < Len(file_names) THEN "open_raw" ELSE "to_csv"
    /\ UNCHANGED <<exception, disk, file_names, file_idx, raw_type, ek, Sv_obj, fileVars, gpsVars,
                   posVars, i, envVars, metadata, csv>>

(***************************************************************************)
(* ep.open_raw(name, sonar_model): the decoded file, or an exception when  *)
(* the file is not of that dialect.                                        *)
(***************************************************************************)
open_raw(name, sonar_model) ==
    IF sonar_model \in disk[name].openable
    THEN [ok |-> TRUE, val |-> disk[name]]
    ELSE [ok |-> FALSE, val |-> None]

(***************************************************************************)
(* Lines 65-70: EK60 first, EK80 when that raises; a second exception is   *)
(* not caught and ends the script.                                         *)
(***************************************************************************)
(***************************************************************************)
(* Variants of lines 65-70: one without the EK80 retry, one that skips a   *)
(* file neither dialect opens and goes on with the next.                   *)
(***************************************************************************)
OpenRawNoRetry ==
    /\ pc = "open_raw"
    /\ LET first == open_raw(CurrentName, "EK60")
       IN  IF first.ok
           THEN /\ raw_type' = "EK60"
                /\ ek' = first.val
                /\ pc' = "compute_Sv"
           ELSE /\ raw_type' = "EK60"
                /\ ek' = ek
                /\ pc' = "halted"
    /\ exception' = IF pc' = "halted" THEN "open_raw" ELSE exception
    /\ UNCHANGED <<disk, file_names, file_idx, Sv_obj, fileVars, gpsVars, posVars,
                   i, envVars, metadata, csv>>

OpenRawSkipFile ==
    /\ pc = "open_raw"
    /\ LET first == open_raw(CurrentName, "EK60")
           second == open_raw(CurrentName, "EK80")
       IN  IF first.ok
           THEN /\ raw_type' = "EK60"
                /\ ek' = first.val
                /\ pc' = "compute_Sv"
                /\ UNCHANGED file_idx
           ELSE /\ raw_type' = "EK80"
                /\ IF second.ok
                   THEN ek' = second.val /\ pc' = "compute_Sv" /\ UNCHANGED file_idx
                   ELSE ek' = ek /\ pc' = "for" /\ file_idx' = file_idx + 1
    /\ UNCHANGED <<exception, disk, file_names, Sv_obj, fileVars, gpsVars, posVars,
                   i, envVars, metadata, csv>>

OpenRaw ==
    /\ pc = "open_raw"
    /\ LET first == open_raw(CurrentName, "EK60")
           second == open_raw(CurrentName, "EK80")
       IN  IF first.ok
           THEN /\ raw_type' = "EK60"
                /\ ek' = first.val
                /\ pc' = "compute_Sv"
           ELSE /\ raw_type' = "EK80"
                /\ IF second.ok
                   THEN ek' = second.val /\ pc' = "compute_Sv"
                   ELSE ek' = ek /\ pc' = "halted"
    /\ exception' = IF pc' = "halted" THEN "open_raw" ELSE exception
    /\ UNCHANGED <<disk, file_names, file_idx, Sv_obj, fileVars, gpsVars, posVars,
                   i, envVars, metadata, csv>>

(***************************************************************************)
(* Lines 73-74.                                                            *)
(***************************************************************************)
all_frequencies == ek.Beam.frequency_nominal
all_channels == ek.Beam.channel

(***************************************************************************)
(* ep.calibrate.compute_Sv(ek, waveform_mode = "CW", encode_mode).         *)
(***************************************************************************)
compute_Sv(e, encode_mode) ==
    IF encode_mode \in e.encodable
    THEN [ok |-> TRUE, val |-> e.Sv]
    ELSE [ok |-> FALSE, val |-> None]

(***************************************************************************)
(* Lines 77-82: power first, complex when that raises.                     *)
(***************************************************************************)
ComputeSv ==
    /\ pc = "compute_Sv"
    /\ LET first == compute_Sv(ek, "power")
           second == compute_Sv(ek, "complex")
       IN  IF first.ok THEN Sv_obj' = first.val /\ pc' = "metadata"
           ELSE IF second.ok THEN Sv_obj' = second.val /\ pc' = "metadata"
           ELSE Sv_obj' = Sv_obj /\ pc' = "halted"
    /\ exception' = IF pc' = "halted" THEN "compute_Sv" ELSE exception
    /\ UNCHANGED <<disk, file_names, file_idx, raw_type, ek, fileVars, gpsVars, posVars,
                   i, envVars, metadata, csv>>

(***************************************************************************)
(* Lines 85-87.  The software text is name + ' v' + version; the maximum   *)
(* echo range counts 10^-5 m.                                              *)
(***************************************************************************)
ReadMetadata ==
    /\ pc = "metadata"
    /\ software' = <<ek.Sonar.sonar_software_name, " v", ek.Sonar.sonar_software_version>>
    /\ npings' = Len(Sv_obj.ping_time)
    /\ max_recording_range' = RoundHalfEven(nanmax(Sv_obj.echo_range), 10)
    /\ pc' = "gps"
    /\ UNCHANGED <<exception, disk, file_names, file_idx, raw_type, ek, Sv_obj, gpsVars, posVars,
                   i, envVars, metadata, csv>>

(***************************************************************************)
(* np.unique: the distinct sentence types, sorted.                         *)
(***************************************************************************)
np_unique(types) ==
    LET S == Range(types)
    IN  [k \in 1..Cardinality(S) |->
            CHOOSE st \in S : Cardinality({o \in S : TypeRank[o] < TypeRank[st]}) = k - 1]

(***************************************************************************)
(* np.where(sentence_types == st)[0]: the matching indices, ascending.     *)
(***************************************************************************)
np_where(types, st) ==
    SelectSeq([k \in 1..Len(types) |-> k], LAMBDA k : types[k] = st)

Take(array, idx) == [j \in 1..Len(idx) |-> array[idx[j]]]

(***************************************************************************)
(* Lines 95-105: the loop over the sorted distinct types from position k,  *)
(* on the dictionary g.  Unrecognised types are skipped; the first         *)
(* recognised type with a fix fills time / latitude / longitude and ends   *)
(* the loop.                                                               *)
(***************************************************************************)
\* a variant without the break: a later recognised type overwrites the entries
RECURSIVE GpsLoopNoBreak(_, _, _)
GpsLoopNoBreak(platform, k, g) ==
    LET u == np_unique(platform.sentence_type)
    IN  IF k > Len(u) THEN g
        ELSE IF u[k] \notin Recognised THEN GpsLoopNoBreak(platform, k + 1, g)
        ELSE LET g1 == (u[k] :> <<>>) @@ g
                 idx == np_where(platform.sentence_type, u[k])
             IN  IF Len(idx) > 0
                 THEN GpsLoopNoBreak(platform, k + 1,
                          ("time" :> Take(platform.time1, idx))
                          @@ ("latitude" :> Take(platform.latitude, idx))
                          @@ ("longitude" :> Take(platform.longitude, idx)) @@ g1)
                 ELSE GpsLoopNoBreak(platform, k + 1, g1)

RECURSIVE GpsLoop(_, _, _)
GpsLoop(platform, k, g) ==
    LET u == np_unique(platform.sentence_type)
    IN  IF k > Len(u) THEN g
        ELSE IF u[k] \notin Recognised THEN GpsLoop(platform, k + 1, g)
        ELSE LET g1 == (u[k] :> <<>>) @@ g
                 idx == np_where(platform.sentence_type, u[k])
             IN  IF Len(idx) > 0
                 THEN ("time" :> Take(platform.time1, idx))
                      @@ ("latitude" :> Take(platform.latitude, idx))
                      @@ ("longitude" :> Take(platform.longitude, idx)) @@ g1
                 ELSE GpsLoop(platform, k + 1, g1)

(***************************************************************************)
(* Lines 90-109: gps starts empty for every file; reading gps['time'] of a *)
(* dictionary the loop left without it is a KeyError that ends the script. *)
(***************************************************************************)
\* a variant that keeps the dictionary of the previous file
GetGpsStale ==
    /\ pc = "gps"
    /\ gps' = GpsLoop(ek.Platform, 1, gps)
    /\ IF "time" \in DOMAIN gps'
       THEN /\ gps_start_dt' = gps'["time"][1]
            /\ gps_end_dt' = gps'["time"][Len(gps'["time"])]
            /\ pc' = "positions"
       ELSE /\ UNCHANGED <<gps_start_dt, gps_end_dt>>
            /\ pc' = "halted"
    /\ exception' = IF pc' = "halted" THEN "KeyError" ELSE exception
    /\ UNCHANGED <<disk, file_names, file_idx, raw_type, ek, Sv_obj, fileVars, posVars,
                   i, envVars, metadata, csv>>

GetGps ==
    /\ pc = "gps"
    /\ gps' = GpsLoop(ek.Platform, 1, <<>>)
    /\ IF "time" \in DOMAIN gps'
       THEN /\ gps_start_dt' = gps'["time"][1]
            /\ gps_end_dt' = gps'["time"][Len(gps'["time"])]
            /\ pc' = "positions"
       ELSE /\ UNCHANGED <<gps_start_dt, gps_end_dt>>
            /\ pc' = "halted"
    /\ exception' = IF pc' = "halted" THEN "KeyError" ELSE exception
    /\ UNCHANGED <<disk, file_names, file_idx, raw_type, ek, Sv_obj, fileVars, posVars,
                   i, envVars, metadata, csv>>

(***************************************************************************)
(* Lines 112-113.  A Python number is its doubled value and whether it is  *)
(* an int: len/2 is true division and gives a float.  min(10, x) is x when *)
(* x < 10 and else the int 10; max(v, 1) is the int 1 when 1 > v and       *)
(* else v.                                                                 *)
(***************************************************************************)
PyInt(n) == [two |-> 2 * n, int |-> TRUE]

ValueRange(n) ==
    LET x == [two |-> n - 2, int |-> FALSE]
        v == IF x.two < 20 THEN x ELSE PyInt(10)
    IN  IF 2 > v.two THEN PyInt(1) ELSE v

(***************************************************************************)
(* array[:v] and array[-v:] for an int v >= 1; a float v is a TypeError,   *)
(* decided by the caller.                                                  *)
(***************************************************************************)
Head_(array, v) == SubSeq(array, 1, MinOf(v, Len(array)))
Tail_(array, v) == SubSeq(array, Len(array) - MinOf(v, Len(array)) + 1, Len(array))

(***************************************************************************)
(* Lines 112-117: the window and the four rounded medians, in 10^-5 deg.   *)
(***************************************************************************)
Positions ==
    /\ pc = "positions"
    /\ value_range' = ValueRange(Len(gps["time"]))
    /\ IF value_range'.int
       THEN LET v == value_range'.two \div 2
            IN  /\ gps_start_lat' = RoundMedian5(Head_(gps["latitude"], v))
                /\ gps_end_lat' = RoundMedian5(Tail_(gps["latitude"], v))
                /\ gps_start_lon' = RoundMedian5(Head_(gps["longitude"], v))
                /\ gps_end_lon' = RoundMedian5(Tail_(gps["longitude"], v))
                /\ i' = 0
                /\ pc' = "channel"
       ELSE /\ UNCHANGED <<gps_start_lat, gps_end_lat, gps_start_lon, gps_end_lon, i>>
            /\ pc' = "halted"
    /\ exception' = IF pc' = "halted" THEN "TypeError" ELSE exception
    /\ UNCHANGED <<disk, file_names, file_idx, raw_type, ek, Sv_obj, fileVars, gpsVars,
                   envVars, metadata, csv>>

(***************************************************************************)
(* array.data[ref_ping] of a per-ping array (1-based sequence).            *)
(***************************************************************************)
AtRef(array) == array[ref_ping + 1]

(***************************************************************************)
(* Lines 129-134: the two-way beamwidths of the beam group, rounded to 5   *)
(* decimals, or the Sv beamwidths as they are when the beam group has      *)
(* none.  Both in 10^-6 deg.                                               *)
(***************************************************************************)
Beamwidths(e, sv, c) ==
    IF e.Beam.twoway
    THEN [ok |-> TRUE,
          alongship   |-> 10 * RoundHalfEven(AtRef(e.Beam.beamwidth_twoway_alongship[c]), 10),
          athwartship |-> 10 * RoundHalfEven(AtRef(e.Beam.beamwidth_twoway_athwartship[c]), 10)]
    ELSE IF sv.beamwidth_ok[c]
    THEN [ok |-> TRUE,
          alongship   |-> AtRef(sv.beamwidth_alongship[c]),
          athwartship |-> AtRef(sv.beamwidth_athwartship[c])]
    ELSE [ok |-> FALSE, alongship |-> None, athwartship |-> None]

(***************************************************************************)
(* Lines 139-142: the try block.  The three scalar reads run in order and  *)
(* stop at the first that raises; a variable not reached keeps the value   *)
(* in old.                                                                 *)
(***************************************************************************)
TryScalar(sv, old) ==
    IF ~sv.scalar_ok["sound_speed"] THEN [old EXCEPT !.raised = TRUE]
    ELSE LET a == [old EXCEPT !.sound_speed = RoundHalfEven(sv.scalar.sound_speed, 10)]
         IN  IF ~sv.scalar_ok["sound_absorption"] THEN [a EXCEPT !.raised = TRUE]
             ELSE LET b == [a EXCEPT !.sound_absorption =
                                        RoundHalfEven(sv.scalar.sound_absorption, 10)]
                  IN  IF ~sv.scalar_ok["water_level"] THEN [b EXCEPT !.raised = TRUE]
                      ELSE [b EXCEPT !.transducer_depth =
                                        RoundHalfEven(sv.scalar.water_level[1], 10)]

(***************************************************************************)
(* Lines 143-146: the except block reads all three per channel; when that  *)
(* raises too the exception ends the script.                               *)
(***************************************************************************)
\* a variant that reassigns the depth only
ExceptPerChannelDepthOnly(sv, c, t) ==
    IF ~sv.channel_ok[c] THEN [t EXCEPT !.ok = FALSE]
    ELSE [t EXCEPT !.transducer_depth = RoundHalfEven(AtRef(sv.per_channel.water_level[c]), 10)]

ExceptPerChannel(sv, c, t) ==
    IF ~sv.channel_ok[c] THEN [t EXCEPT !.ok = FALSE]
    ELSE [t EXCEPT
            !.sound_speed = RoundHalfEven(AtRef(sv.per_channel.sound_speed[c]), 10),
            !.sound_absorption = RoundHalfEven(AtRef(sv.per_channel.sound_absorption[c]), 10),
            !.transducer_depth = RoundHalfEven(AtRef(sv.per_channel.water_level[c]), 10)]

(***************************************************************************)
(* Lines 139-146 for channel c, from the values old of the three           *)
(* variables: speed in 10^-5 m/s, absorption in 10^-8 dB/m, depth in       *)
(* 10^-5 m.                                                                *)
(***************************************************************************)
Environment(sv, c, old) ==
    LET t == TryScalar(sv, [old EXCEPT !.raised = FALSE, !.ok = TRUE])
    IN  IF t.raised THEN ExceptPerChannel(sv, c, t) ELSE t

(***************************************************************************)
(* Lines 164-166.  The three depth columns count halves of 10^-5 m, the    *)
(* unit in which max_recording_range / 2 is exact.                         *)
(***************************************************************************)
Twice(x) == IF x = NaN THEN NaN ELSE 2 * x
DepthMin(td, mrr) == Twice(td)
DepthMax(td, mrr) == Twice(FAdd(mrr, td))
\* a variant that halves the sum: (depth + range) / 2
DepthMedianOfSum(td, mrr) == FAdd(td, mrr)
DepthMedian(td, mrr) == FAdd(Twice(td), mrr)

(***************************************************************************)
(* Lines 122-126, 136-137 and 149-173: the row of channel c (1-based).     *)
(* Frequency is Hz / 1000 as <<whole kHz, thousandths>>; the pulse         *)
(* duration is rounded to 6 decimals of a second, then to 3 decimals of a  *)
(* millisecond.                                                            *)
(***************************************************************************)
Row(c, bw, env) ==
    LET pulse_duration == RoundHalfEven(AtRef(ek.Beam.transmit_duration_nominal[c]), 10)
        sample_interval == RoundHalfEven(AtRef(ek.Beam.sample_interval[c]), 10)
        transmit_power == AtRef(ek.Beam.transmit_power[c])
        gain == AtRef(Sv_obj.gain_correction[c])
        Sa == AtRef(Sv_obj.sa_correction[c])
    IN
    [col \in Columns |->
        CASE col = "Event" -> cruise_label
          [] col = "Echogram, raw format []" -> CurrentName
          [] col = "Identification []//*channel" -> all_channels[c]
          [] col = "Data acquisition software (recording raw data) []" -> software
          [] col = "Frequency [kHz]" -> <<all_frequencies[c] \div 1000, all_frequencies[c] % 1000>>
          [] col = "Number of pings []" -> npings
          [] col = "Beamwidth, alongship [deg]" -> bw.alongship
          [] col = "Beamwidth, athwartship [deg]" -> bw.athwartship
          [] col = "Gain, transducer [dB re 1]" -> gain
          [] col = "Simrad correction factor [dB re 1/m]" -> Sa
          [] col = "Sample interval [s]" -> sample_interval
          [] col = "Pulse duration, transmitted [ms]" -> RoundHalfEven(pulse_duration * 1000, 1000)
          [] col = "Power, transmitted [W]" -> transmit_power
          [] col = "Sound velocity in water [m/s]" -> env.sound_speed
          [] col = "Sound absorption [dB/m]" -> env.sound_absorption
          [] col = "Depth, water, top/minimum [m]" -> DepthMin(env.transducer_depth, max_recording_range)
          [] col = "Depth, water, bottom/maximum [m]" -> DepthMax(env.transducer_depth, max_recording_range)
          [] col = "DEPTH, water [m]" -> DepthMedian(env.transducer_depth, max_recording_range)
          [] col = "Date/time start []" -> gps_start_dt
          [] col = "Date/time end []\t" -> gps_end_dt
          [] col = "Latitude []" -> gps_start_lat
          [] col = "Latitude 2 []" -> gps_end_lat
          [] col = "Longitude []\t" -> gps_start_lon
          [] col = "Longitude 2 []" -> gps_end_lon
          [] col = "Calibration []" -> calibration_status]

(***************************************************************************)
(* metadata[col].append(row[col]) for every column, on a defaultdict(list):*)
(* a column appears with its first entry.                                  *)
(***************************************************************************)
AppendRow(md, row) ==
    [col \in (DOMAIN md) \cup (DOMAIN row) |->
        IF col \in DOMAIN row
        THEN (IF col \in DOMAIN md THEN Append(md[col], row[col]) ELSE <<row[col]>>)
        ELSE md[col]]

(***************************************************************************)
(* Line 120: range(len(all_frequencies)).                                  *)
(***************************************************************************)
\* a variant that stops one channel short
ChannelCountShort(e) == MaxOf(0, Len(e.Beam.frequency_nominal) - 1)
ChannelCount(e) == Len(e.Beam.frequency_nominal)

(***************************************************************************)
(* Lines 120-173, one pass of the channel loop.  i counts the channels     *)
(* done, so the channel at hand is the (i + 1)-th.                         *)
(***************************************************************************)
ChannelRow ==
    /\ pc = "channel"
    /\ i < ChannelCount(ek)
    /\ LET c == i + 1
           bw == Beamwidths(ek, Sv_obj, c)
           env == Environment(Sv_obj, c,
                      [sound_speed |-> sound_speed, sound_absorption |-> sound_absorption,
                       transducer_depth |-> transducer_depth, raised |-> FALSE, ok |-> TRUE])
       IN  IF ~bw.ok
           THEN /\ pc' = "halted"
                /\ exception' = "beamwidth"
                /\ UNCHANGED <<i, envVars, metadata>>
           ELSE /\ sound_speed' = env.sound_speed
                /\ sound_absorption' = env.sound_absorption
                /\ transducer_depth' = env.transducer_depth
                /\ IF ~env.ok
                   THEN /\ pc' = "halted"
                        /\ exception' = "environment"
                        /\ UNCHANGED <<i, metadata>>
                   ELSE /\ metadata' = AppendRow(metadata, Row(c, bw, env))
                        /\ UNCHANGED exception
                        /\ i' = i + 1
                        /\ pc' = "channel"
    /\ UNCHANGED <<disk, file_names, file_idx, raw_type, ek, Sv_obj, fileVars, gpsVars,
                   posVars, csv>>

(***************************************************************************)
(* The channel loop is exhausted: on to the next file.                     *)
(***************************************************************************)
EndFile ==
    /\ pc = "channel"
    /\ i >= ChannelCount(ek)
    /\ file_idx' = file_idx + 1
    /\ pc' = "for"
    /\ UNCHANGED <<exception, disk, file_names, raw_type, ek, Sv_obj, fileVars, gpsVars, posVars,
                   i, envVars, metadata, csv>>

(***************************************************************************)
(* Lines 176-181: the data frame of the table, written as                  *)
(* <cruise_label>_metadata.csv; reached only when the file loop ended.     *)
(***************************************************************************)
NRows(md) == IF DOMAIN md = {} THEN 0 ELSE Len(md[CHOOSE col \in DOMAIN md : TRUE])

ToCsv ==
    /\ pc = "to_csv"
    /\ csv' = [name |-> <<cruise_label, "_metadata.csv">>,
               columns |-> DOMAIN metadata,
               rows |-> NRows(metadata)]
    /\ pc' = "done"
    /\ UNCHANGED <<exception, disk, file_names, file_idx, raw_type, ek, Sv_obj, fileVars, gpsVars,
                   posVars, i, envVars, metadata>>

Next ==
    \/ ListFiles
    \/ ForFile
    \/ OpenRaw
    \/ ComputeSv
    \/ ReadMetadata
    \/ GetGps
    \/ Positions
    \/ ChannelRow
    \/ EndFile
    \/ ToCsv

Spec == Init /\ [][Next]_vars

(***************************************************************************)
(* Reading the table.                                                      *)
(***************************************************************************)
ColFile == "Echogram, raw format []"
ColChannel == "Identification []//*channel"
RowIds == 1..NRows(metadata)
Cell(r, col) == metadata[col][r]
RowsOfFile(name) == {r \in RowIds : Cell(r, ColFile) = name}
FileOfRow(r) == disk[Cell(r, ColFile)]
\* the position of row r among the rows of its file
ChannelOfRow(r) == Cardinality({q \in RowsOfFile(Cell(r, ColFile)) : q <= r})
\* the files whose iteration of the file loop has ended
DoneFiles == {file_names[k] : k \in 1..file_idx}

(***************************************************************************)
(* C1: every column of the table has the same length; a file whose         *)
(* iteration ended has exactly as many rows as it has nominal frequencies, *)
(* so every one of the 25 columns grew by its channel count.               *)
(***************************************************************************)
C1_RowsPerFile ==
    /\ DOMAIN metadata \in {{}, Columns}
    /\ \A col \in DOMAIN metadata : Len(metadata[col]) = NRows(metadata)
    /\ \A name \in DoneFiles :
           Cardinality(RowsOfFile(name)) = Len(disk[name].Beam.frequency_nominal)

C1_Witness ==
    /\ file_idx = 2
    /\ \E name \in DoneFiles :
           /\ Len(disk[name].Beam.frequency_nominal) = 2
           /\ Cardinality(RowsOfFile(name)) = 2
    /\ \E name \in DoneFiles : Cardinality(RowsOfFile(name)) = 1

(***************************************************************************)
(* C2: file_names is the directory in ascending lexicographic order and    *)
(* the files are taken in that order; in the table the rows of an earlier  *)
(* file precede those of a later one, and the j-th row of a file is that   *)
(* of its j-th channel.                                                    *)
(***************************************************************************)
C2_FileThenChannelOrder ==
    /\ pc # "glob" =>
           /\ Range(file_names) = DOMAIN disk
           /\ Len(file_names) = Cardinality(DOMAIN disk)
           /\ \A a, b \in DOMAIN file_names : a < b => LexLess(file_names[a], file_names[b])
    /\ \A r \in RowIds : \E k \in 1..MinOf(file_idx + 1, Len(file_names)) :
           Cell(r, ColFile) = file_names[k]
    /\ \A r, q \in RowIds :
           r < q => \/ Cell(r, ColFile) = Cell(q, ColFile)
                    \/ LexLess(Cell(r, ColFile), Cell(q, ColFile))
    /\ \A r \in RowIds :
           /\ ChannelOfRow(r) <= Len(FileOfRow(r).Beam.channel)
           /\ Cell(r, ColChannel) = FileOfRow(r).Beam.channel[ChannelOfRow(r)]

C2_Witness ==
    /\ pc = "done"
    /\ file_idx = 2
    /\ file_names = << <<1>>, <<1, 2>> >>
    /\ \A name \in DoneFiles : RowsOfFile(name) # {}
    /\ \E name \in DoneFiles : Cardinality(RowsOfFile(name)) = 2

(***************************************************************************)
(* The script is inside the iteration of CurrentName, past the open.       *)
(***************************************************************************)
InFile == pc \in {"compute_Sv", "metadata", "gps", "positions", "channel"}
Opened == InFile \/ (pc = "halted" /\ exception # "open_raw")

\* two files that differ at most in the dialects that open them
SameButDialect(f, g) == [f EXCEPT !.openable = {}] = [g EXCEPT !.openable = {}]
\* the rows of a file, in order, without the file-name column
RowBlock(name) ==
    LET rs == RowsOfFile(name)
    IN  [j \in 1..Cardinality(rs) |->
            LET r == CHOOSE q \in rs : ChannelOfRow(q) = j
            IN  [col \in Columns \ {ColFile} |-> Cell(r, col)]]

(***************************************************************************)
(* C3 as stated: EK60 first and EK80 only when EK60 fails; a file that     *)
(* exactly one dialect opens is processed successfully, so the script      *)
(* never halts on it; its rows are those of the same file under the other  *)
(* dialect; when both fail the script halts with no row for the file.      *)
(***************************************************************************)
C3_AsStated ==
    /\ Opened => /\ raw_type \in disk[CurrentName].openable
                 /\ raw_type = "EK80" => "EK60" \notin disk[CurrentName].openable
    /\ pc = "halted" => Cardinality(disk[CurrentName].openable) # 1
    /\ \A f, g \in DoneFiles :
           SameButDialect(disk[f], disk[g]) => RowBlock(f) = RowBlock(g)
    /\ (pc = "halted" /\ exception = "open_raw") =>
           disk[CurrentName].openable = {} /\ RowsOfFile(CurrentName) = {}

(***************************************************************************)
(* C3 amended: EK60 first and EK80 only when EK60 fails; a file that       *)
(* exactly one dialect opens is opened under that dialect (the script may  *)
(* still halt on it later, for a reason other than the dialect); whenever  *)
(* two files that differ only in dialect are both processed, their rows    *)
(* are the same; when both dialects fail the script halts with no row for  *)
(* the file.                                                               *)
(***************************************************************************)
C3_DialectFallback ==
    /\ Opened => /\ raw_type \in disk[CurrentName].openable
                 /\ raw_type = "EK80" => "EK60" \notin disk[CurrentName].openable
    /\ (pc = "halted" /\ exception = "open_raw") => disk[CurrentName].openable = {}
    /\ \A r \in RowIds : FileOfRow(r).openable # {}
    /\ \A f, g \in DoneFiles :
           SameButDialect(disk[f], disk[g]) => RowBlock(f) = RowBlock(g)
    /\ (pc = "halted" /\ exception = "open_raw") => RowsOfFile(CurrentName) = {}

C3_Witness ==
    /\ file_idx = 2
    /\ \E f, g \in DoneFiles :
           /\ disk[f].openable = {"EK60"}
           /\ disk[g].openable = {"EK80"}
           /\ SameButDialect(disk[f], disk[g])
           /\ Cardinality(RowsOfFile(g)) = 2
           /\ RowBlock(f) = RowBlock(g)

(***************************************************************************)
(* A file the script cannot get past: neither dialect opens it, or its     *)
(* navigation log has no fix of a recognised sentence type.                *)
(***************************************************************************)
Unrecoverable(f) ==
    \/ f.openable = {}
    \/ Range(f.Platform.sentence_type) \cap Recognised = {}

(***************************************************************************)
(* C4: the CSV file exists only once the loop has gone through every file  *)
(* of the directory, none of them unrecoverable; a halted script has       *)
(* written nothing, whatever rows the table holds, and does nothing more.  *)
(***************************************************************************)
C4_OutputOnlyAtEnd ==
    /\ pc = "halted" => csv = None /\ ~ENABLED Next
    /\ (InFile \/ pc \in {"glob", "for", "open_raw", "to_csv"}) => csv = None
    /\ pc = "done" =>
           /\ file_idx = Len(file_names)
           /\ DoneFiles = DOMAIN disk
           /\ \A name \in DOMAIN disk : ~Unrecoverable(disk[name])
           /\ csv.rows = NRows(metadata)
    /\ (pc = "open_raw" /\ disk[CurrentName].openable = {}) => ~ENABLED (Next /\ pc' # "halted")
    /\ (pc = "gps" /\ Unrecoverable(disk[CurrentName])) => ~ENABLED (Next /\ pc' # "halted")

C4_Witness ==
    /\ pc = "halted"
    /\ exception \in {"open_raw", "KeyError"}
    /\ Unrecoverable(disk[CurrentName])
    /\ file_idx = 1
    /\ NRows(metadata) > 0
    /\ csv = None

(***************************************************************************)
(* The navigation log of a file, read as the claims describe it: the       *)
(* retained type is the recognised type present that no other recognised   *)
(* type present precedes in the reported ordering; its fixes are the       *)
(* indices of that type.                                                   *)
(***************************************************************************)
ColStart == "Date/time start []"
ColEnd == "Date/time end []\t"
ColLat == "Latitude []"
ColLat2 == "Latitude 2 []"
ColLon == "Longitude []\t"
ColLon2 == "Longitude 2 []"

PresentTypes(f) == Range(f.Platform.sentence_type) \cap Recognised
IsRetainedType(f, t) ==
    /\ t \in PresentTypes(f)
    /\ \A o \in PresentTypes(f) : TypeRank[t] <= TypeRank[o]
FixesOf(f, t) == {k \in DOMAIN f.Platform.sentence_type : f.Platform.sentence_type[k] = t}
\* the j-th smallest index of a set of indices
NthIndex(K, j) == CHOOSE k \in K : Cardinality({m \in K : m < k}) = j - 1
FirstIndex(K) == CHOOSE k \in K : \A m \in K : k <= m
LastIndex(K) == CHOOSE k \in K : \A m \in K : m <= k

\* gps holds the reduction of the navigation log of CurrentName
GpsIsCurrent == pc \in {"positions", "channel"} \/ (pc = "halted" /\ exception = "TypeError")

(***************************************************************************)
(* C5: after the reduction gps holds the fixes of one sentence type only,  *)
(* the retained type, in input order; the start and end timestamps, in the *)
(* variables and in every row of the table, are the time of the first and  *)
(* of the last fix of that type in input order.                            *)
(***************************************************************************)
C5_OneSentenceType ==
    /\ GpsIsCurrent =>
           \E t \in Recognised :
               LET f == disk[CurrentName]
                   K == FixesOf(f, t)
               IN  /\ IsRetainedType(f, t)
                   /\ Len(gps["time"]) = Cardinality(K)
                   /\ Len(gps["latitude"]) = Cardinality(K)
                   /\ Len(gps["longitude"]) = Cardinality(K)
                   /\ \A j \in 1..Cardinality(K) :
                          /\ gps["time"][j] = f.Platform.time1[NthIndex(K, j)]
                          /\ gps["latitude"][j] = f.Platform.latitude[NthIndex(K, j)]
                          /\ gps["longitude"][j] = f.Platform.longitude[NthIndex(K, j)]
                   /\ gps_start_dt = f.Platform.time1[FirstIndex(K)]
                   /\ gps_end_dt = f.Platform.time1[LastIndex(K)]
    /\ \A r \in RowIds :
           \E t \in Recognised :
               /\ IsRetainedType(FileOfRow(r), t)
               /\ Cell(r, ColStart) = FileOfRow(r).Platform.time1[FirstIndex(FixesOf(FileOfRow(r), t))]
               /\ Cell(r, ColEnd) = FileOfRow(r).Platform.time1[LastIndex(FixesOf(FileOfRow(r), t))]

\* a row of a file with fixes of two recognised types, whose retained fixes
\* are not in time order
C5_Witness ==
    \E r \in RowIds :
        /\ Cardinality(PresentTypes(FileOfRow(r))) >= 2
        /\ Cell(r, ColStart) > Cell(r, ColEnd)

(***************************************************************************)
(* The window of the claims: max(1, min(10, floor(n / 2) - 1)).            *)
(***************************************************************************)
Window(n) == MaxOf(1, MinOf(10, n \div 2 - 1))

(***************************************************************************)
(* C6: whenever a navigation group has been retained, the window is the    *)
(* integer max(1, min(10, floor(n / 2) - 1)) of its n fixes, the script    *)
(* gets past the slices, and the positions are the rounded medians of the  *)
(* first and of the last window-many fixes.                                *)
(***************************************************************************)
C6_WindowIsInteger ==
    /\ ~(pc = "halted" /\ exception = "TypeError")
    /\ pc = "channel" =>
           LET n == Len(gps["time"])
           IN  /\ value_range.int
               /\ value_range.two = 2 * Window(n)
               /\ gps_start_lat = RoundMedian5(SubSeq(gps["latitude"], 1, Window(n)))
               /\ gps_end_lat = RoundMedian5(SubSeq(gps["latitude"], n - Window(n) + 1, n))
               /\ gps_start_lon = RoundMedian5(SubSeq(gps["longitude"], 1, Window(n)))
               /\ gps_end_lon = RoundMedian5(SubSeq(gps["longitude"], n - Window(n) + 1, n))

(***************************************************************************)
(* The file of the scenario: channels 18 kHz and 38 kHz, a navigation log  *)
(* of 20 RMC fixes, nothing else out of the ordinary.                      *)
(***************************************************************************)
IsScenarioFile(f) ==
    /\ f.Beam.frequency_nominal = <<18000, 38000>>
    /\ f.Platform.sentence_type = Rep(20, <<"RMC">>)
    /\ f.openable # {}
    /\ f.encodable # {}
    /\ f.Beam.twoway
    /\ \A v \in EnvVars : f.Sv.scalar_ok[v]

SharedColumns ==
    {"Event", ColStart, ColEnd, ColLat, ColLat2, ColLon, ColLon2}

(***************************************************************************)
(* C7: the script does not halt on the scenario file, and once its         *)
(* iteration has ended the table holds exactly 2 rows for it, equal in     *)
(* Event, timestamps and positions and different in frequency.             *)
(***************************************************************************)
C7_TwoChannelScenario ==
    /\ pc = "halted" => ~IsScenarioFile(disk[CurrentName])
    /\ \A name \in DoneFiles :
           IsScenarioFile(disk[name]) =>
               /\ Cardinality(RowsOfFile(name)) = 2
               /\ \A r, q \in RowsOfFile(name) :
                      /\ \A col \in SharedColumns : Cell(r, col) = Cell(q, col)
                      /\ r # q => Cell(r, "Frequency [kHz]") # Cell(q, "Frequency [kHz]")

(***************************************************************************)
(* The columns that hold one value per file.                               *)
(***************************************************************************)
FileColumns ==
    {"Event", "Data acquisition software (recording raw data) []", "Number of pings []",
     "Calibration []", ColStart, ColEnd, ColLat, ColLat2, ColLon, ColLon2}

\* a rounded position lies within the positions of the log it was reduced from
WithinOwn(v, own) ==
    \/ v = NaN
    \/ \E a, b \in Range(own) \ {NaN} : a - 5 <= 10 * v /\ 10 * v <= b + 5

(***************************************************************************)
(* C8: in every state of the table two rows of the same file agree in      *)
(* Event, software, ping count, calibration status, timestamps and         *)
(* positions; and the navigation values of a row come from the log of its  *)
(* own file: its timestamps are times of that log and its positions lie    *)
(* within the positions of that log.                                       *)
(***************************************************************************)
C8_SharedNavigationFields ==
    /\ \A r, q \in RowIds :
           Cell(r, ColFile) = Cell(q, ColFile) =>
               \A col \in FileColumns : Cell(r, col) = Cell(q, col)
    /\ \A r \in RowIds :
           LET own == FileOfRow(r).Platform
           IN  /\ Cell(r, ColStart) \in Range(own.time1)
               /\ Cell(r, ColEnd) \in Range(own.time1)
               /\ WithinOwn(Cell(r, ColLat), own.latitude)
               /\ WithinOwn(Cell(r, ColLat2), own.latitude)
               /\ WithinOwn(Cell(r, ColLon), own.longitude)
               /\ WithinOwn(Cell(r, ColLon2), own.longitude)
               /\ Cell(r, "Number of pings []") = Len(FileOfRow(r).Sv.ping_time)

C8_Witness ==
    /\ file_idx = 2
    /\ \E r, q \in RowIds : /\ r # q
                            /\ Cell(r, ColFile) = Cell(q, ColFile)
                            /\ Cell(r, ColChannel) # Cell(q, ColChannel)
    /\ \E r, q \in RowIds : /\ Cell(r, ColFile) # Cell(q, ColFile)
                            /\ Cell(r, ColStart) # Cell(q, ColStart)
                            /\ Cell(r, ColLat) # Cell(q, ColLat)

(***************************************************************************)
(* What the claims call the file's maximum echo range and the transducer   *)
(* depth of a row, in 10^-5 m: the largest defined echo-range sample, and  *)
(* the scalar water level or the water level of the row's channel.         *)
(***************************************************************************)
ColDepthMin == "Depth, water, top/minimum [m]"
ColDepthMax == "Depth, water, bottom/maximum [m]"
ColDepth == "DEPTH, water [m]"
ColSpeed == "Sound velocity in water [m/s]"
ColAbsorption == "Sound absorption [dB/m]"

MaxEchoRange(f) ==
    LET defined == Range(f.Sv.echo_range) \ {NaN}
    IN  IF defined = {} THEN NaN
        ELSE RoundHalfEven(CHOOSE v \in defined : \A w \in defined : w <= v, 10)

ScalarTriple(f) ==
    <<RoundHalfEven(f.Sv.scalar.sound_speed, 10),
      RoundHalfEven(f.Sv.scalar.sound_absorption, 10),
      RoundHalfEven(f.Sv.scalar.water_level[1], 10)>>
ChannelTriple(f, c) ==
    <<RoundHalfEven(f.Sv.per_channel.sound_speed[c][1], 10),
      RoundHalfEven(f.Sv.per_channel.sound_absorption[c][1], 10),
      RoundHalfEven(f.Sv.per_channel.water_level[c][1], 10)>>
RowTriple(r) == <<Cell(r, ColSpeed), Cell(r, ColAbsorption), Cell(r, ColDepthMin) \div 2>>

(***************************************************************************)
(* C9: in every row (depth columns in halves of 10^-5 m) the minimum depth *)
(* is the transducer depth, the maximum is the minimum plus the file's     *)
(* maximum echo range, and the median is the minimum plus half that range, *)
(* so twice the median is minimum plus maximum.  An undefined range makes  *)
(* maximum and median undefined.                                           *)
(***************************************************************************)
C9_DepthFields ==
    \A r \in RowIds :
        LET f == FileOfRow(r)
            lo == Cell(r, ColDepthMin)
            hi == Cell(r, ColDepthMax)
            mid == Cell(r, ColDepth)
            range == MaxEchoRange(f)
        IN  /\ lo \in {2 * ScalarTriple(f)[3], 2 * ChannelTriple(f, ChannelOfRow(r))[3]}
            /\ range = NaN => hi = NaN /\ mid = NaN
            /\ range # NaN =>
                   /\ hi - lo = 2 * range
                   /\ mid = lo + range
                   /\ 2 * mid = lo + hi

\* a row whose median depth falls between two steps of 10^-5 m
C9_Witness ==
    \E r \in RowIds :
        /\ Cell(r, ColDepthMax) # NaN
        /\ Cell(r, ColDepth) % 2 = 1
        /\ Cell(r, ColDepthMax) > Cell(r, ColDepth)
        /\ Cell(r, ColDepth) > Cell(r, ColDepthMin)

(***************************************************************************)
(* C10: the three values of a row are the three scalar reads when all      *)
(* three succeed, and otherwise the three reads of the row's channel: no   *)
(* row holds a scalar read next to a per-channel read.                     *)
(***************************************************************************)
C10_NoMixedForms ==
    \A r \in RowIds :
        LET f == FileOfRow(r)
            c == ChannelOfRow(r)
        IN  /\ (\A v \in EnvVars : f.Sv.scalar_ok[v]) => RowTriple(r) = ScalarTriple(f)
            /\ (\E v \in EnvVars : ~f.Sv.scalar_ok[v]) =>
                   f.Sv.channel_ok[c] /\ RowTriple(r) = ChannelTriple(f, c)
            /\ \A k \in 1..3 : \A m \in 1..3 :
                   ~(RowTriple(r)[k] = ScalarTriple(f)[k] /\ RowTriple(r)[m] # ScalarTriple(f)[m])

\* a row of a file whose scalar speed and absorption reads succeed and whose
\* scalar depth read raises: all three values are the channel's
C10_Witness ==
    \E r \in RowIds :
        /\ FileOfRow(r).Sv.scalar_ok["sound_speed"]
        /\ FileOfRow(r).Sv.scalar_ok["sound_absorption"]
        /\ ~FileOfRow(r).Sv.scalar_ok["water_level"]
        /\ RowTriple(r) = ChannelTriple(FileOfRow(r), ChannelOfRow(r))
        /\ RowTriple(r)[1] # ScalarTriple(FileOfRow(r))[1]

====
